---- MODULE Spec2Model ----
(***************************************************************************)
(* promptbank: the template engine (Prompt::extract_variables,             *)
(* Prompt::render), the record store (PromptBank) and the command          *)
(* handlers of App over the JSON backing file (Storage).                   *)
(*                                                                         *)
(* A Rust String is a sequence of one-character strings, so that the       *)
(* character scans of the code are modelled step by step.                  *)
(***************************************************************************)
EXTENDS Integers, Sequences, FiniteSets, TLC

VARIABLES
    tcontent,      \* template engine: the content under test (Prompt.content)
    tvars,         \* template engine: result of extract_variables
    tsubs,         \* template engine: the substitutions given to render
    trendered,     \* template engine: result of render
    tpc            \* template engine: "input" | "extracted" | "rendered"

VARIABLES
    bank,          \* App.bank / the PromptBank under test: [prompts, version]
    file,          \* the backing file (Storage.data_path): absent or a JSON text
    xfile,         \* the file at the path given to export and import
    clock,         \* the time Utc::now() returns next
    cmd,           \* the last operation: its name, arguments and outcome
    procs          \* concurrent invocations: each process's position and memory

tvarsAll == <<tcontent, tvars, tsubs, trendered, tpc>>

svarsAll == <<bank, file, xfile, clock, cmd, procs>>

vars == <<tcontent, tvars, tsubs, trendered, tpc, bank, file, xfile, clock, cmd, procs>>

----------------------------------------------------------------------------
(* Bounds *)

\* contents of the extract specification: at most MaxFrags fragments
MaxFrags == 3
\* contents of the render specification: at most MaxRFrags fragments
MaxRFrags == 3
\* substitution lists of at most MaxSubs pairs
MaxSubs == 2
\* the collection holds at most MaxPrompts records
MaxPrompts == 2
\* the collection of the PromptBank specification holds at most MaxBank records
MaxBank == 3
\* an imported file holds at most MaxImport records
MaxImport == 2
\* Utc::now() is called at most MaxClock times
MaxClock == 2
\* the collection of the search specification holds at most MaxSearch records
MaxSearch == 2

----------------------------------------------------------------------------
(* Strings *)

Open == <<"{", "{">>
Close == <<"}", "}">>

RECURSIVE Concats(_, _)
\* all concatenations of at most n fragments of F
Concats(F, n) ==
    IF n = 0 THEN {<<>>}
    ELSE LET S == Concats(F, n - 1) IN S \cup {s \o f : s \in S, f \in F}

RECURSIVE Lists(_, _)
\* all lists of at most n elements of S
Lists(S, n) ==
    IF n = 0 THEN {<<>>}
    ELSE LET L == Lists(S, n - 1) IN L \cup {Append(l, x) : l \in L, x \in S}

\* s[i..] starts with p   (1-based i)
StartsAt(s, i, p) ==
    /\ i + Len(p) - 1 <= Len(s)
    /\ \A k \in 1..Len(p) : s[i + k - 1] = p[k]

Contains(seq, x) == \E k \in 1..Len(seq) : seq[k] = x

----------------------------------------------------------------------------
(* Prompt::extract_variables  (src/src/prompt.rs 94-120) *)

RECURSIVE ScanName(_, _, _)
\* the inner while loop (lines 103-110): from index i, push characters to
\* var_name until "}}" is seen (then skip it) or the input ends.
ScanName(chars, i, var_name) ==
    IF i > Len(chars) THEN [i |-> i, var_name |-> var_name]
    ELSE IF i + 1 <= Len(chars) /\ chars[i] = "}" /\ chars[i + 1] = "}"
         THEN [i |-> i + 2, var_name |-> var_name]
         ELSE ScanName(chars, i + 1, Append(var_name, chars[i]))

\* line 111: the name is pushed when non-empty and not yet present
PushVariable(variables, var_name) ==
    IF var_name # <<>> /\ ~Contains(variables, var_name)
    THEN Append(variables, var_name)
    ELSE variables

RECURSIVE ExtractLoop(_, _, _)
\* the outer while loop (lines 99-117)
ExtractLoop(chars, i, variables) ==
    IF i > Len(chars) THEN variables
    ELSE IF i + 1 <= Len(chars) /\ chars[i] = "{" /\ chars[i + 1] = "{"
         THEN LET r == ScanName(chars, i + 2, <<>>)
              IN ExtractLoop(chars, r.i, PushVariable(variables, r.var_name))
         ELSE ExtractLoop(chars, i + 1, variables)

extract_variables(content) == ExtractLoop(content, 1, <<>>)

----------------------------------------------------------------------------
(* Prompt::render  (src/src/prompt.rs 123-130) *)

\* a pattern that forgets the closing braces
PatternNoClose(key) == Open \o key

\* format!("{{{{{}}}}}", key)
Pattern(key) == Open \o key \o Close

RECURSIVE ReplaceFrom(_, _, _, _, _)
\* str::replace: the non-overlapping matches of pat, leftmost first
ReplaceFrom(s, i, pat, to, acc) ==
    IF i > Len(s) THEN acc
    ELSE IF StartsAt(s, i, pat)
         THEN ReplaceFrom(s, i + Len(pat), pat, to, acc \o to)
         ELSE ReplaceFrom(s, i + 1, pat, to, Append(acc, s[i]))

Replace(s, pat, to) == ReplaceFrom(s, 1, pat, to, <<>>)

RECURSIVE RenderLoopReversed(_, _)
\* a render that applies the pairs last to first
RenderLoopReversed(result, substitutions) ==
    IF substitutions = <<>> THEN result
    ELSE LET kv == substitutions[Len(substitutions)]
         IN RenderLoopReversed(
                ReplaceFrom(result, 1, Open \o kv[1] \o Close, kv[2], <<>>),
                SubSeq(substitutions, 1, Len(substitutions) - 1))

RECURSIVE RenderLoop(_, _)
\* the for loop (lines 125-128) over the pairs in supplied order
RenderLoop(result, substitutions) ==
    IF substitutions = <<>> THEN result
    ELSE LET kv == Head(substitutions)
         IN RenderLoop(Replace(result, Pattern(kv[1]), kv[2]), Tail(substitutions))

render(content, substitutions) == RenderLoop(content, substitutions)

----------------------------------------------------------------------------
(* Record model  (src/src/prompt.rs 9-91, 139-152) *)

\* PromptCategory: the unit variants carry no name
Category(variant, name) == [variant |-> variant, name |-> name]
UnitVariants == {"system", "skill", "agent", "role", "task", "template"}

\* Prompt (lines 57-67)
MkPrompt(id, name, category, description, content, tags, variables, created, updated) ==
    [id |-> id, name |-> name, category |-> category, description |-> description,
     content |-> content, tags |-> tags, variables |-> variables,
     created_at |-> created, updated_at |-> updated]

\* Prompt::new (lines 70-91): id is the random Uuid prefix, now is Utc::now()
PromptNew(id, now, name, category, description, content, tags) ==
    MkPrompt(id, name, category, description, content, tags,
             extract_variables(content), now, now)

\* Prompt::update_content (lines 132-136)
update_content(prompt, content, now) ==
    [prompt EXCEPT !.content = content,
                   !.variables = extract_variables(content),
                   !.updated_at = now]

\* PromptBank::new (lines 147-152)
PromptBankNew == [prompts |-> <<>>, version |-> <<"1", ".", "0">>]

----------------------------------------------------------------------------
(* PromptBank  (src/src/prompt.rs 154-170) *)

\* PromptBank::add
add(b, prompt) == [b EXCEPT !.prompts = Append(@, prompt)]

\* the closure of get / get_mut (lines 159, 163)
Matches(p, id) == p.id = id \/ p.name = id

RECURSIVE FindFrom(_, _, _)
\* Iterator::find: the index of the first record the closure accepts, 0 for None
FindFrom(prompts, i, id) ==
    IF i > Len(prompts) THEN 0
    ELSE IF Matches(prompts[i], id) THEN i
    ELSE FindFrom(prompts, i + 1, id)

\* PromptBank::get and get_mut: Option<&Prompt> as an index, 0 for None
get(b, id) == FindFrom(b.prompts, 1, id)

\* a retain that stops at the first record it removes
RetainFirstOnly(prompts, i, id, kept) ==
    LET hit == {k \in 1..Len(prompts) : prompts[k].id = id \/ prompts[k].name = id}
        h == CHOOSE k \in hit : \A j \in hit : k <= j
    IN IF hit = {} THEN prompts
       ELSE SubSeq(prompts, 1, h - 1) \o SubSeq(prompts, h + 1, Len(prompts))

RECURSIVE RetainFrom(_, _, _, _)
\* Vec::retain with the closure of line 168
RetainFrom(prompts, i, id, kept) ==
    IF i > Len(prompts) THEN kept
    ELSE RetainFrom(prompts, i + 1, id,
            IF prompts[i].id # id /\ prompts[i].name # id
            THEN Append(kept, prompts[i]) ELSE kept)

\* PromptBank::delete: the collection afterwards and the returned bool
delete(b, id) ==
    LET kept == RetainFrom(b.prompts, 1, id, <<>>)
    IN [bank |-> [b EXCEPT !.prompts = kept],
        ret |-> Len(kept) # Len(b.prompts)]

----------------------------------------------------------------------------
(* PromptCategory::from_str  (src/src/prompt.rs 36-53) *)

UpperChars == <<"A", "B", "C", "D", "E", "F", "G", "H", "I", "J", "K", "L", "M",
                "N", "O", "P", "Q", "R", "S", "T", "U", "V", "W", "X", "Y", "Z">>
LowerChars == <<"a", "b", "c", "d", "e", "f", "g", "h", "i", "j", "k", "l", "m",
                "n", "o", "p", "q", "r", "s", "t", "u", "v", "w", "x", "y", "z">>

\* str::to_lowercase, on the letters A-Z
to_lowercase(str) ==
    [k \in 1..Len(str) |->
        IF \E u \in 1..26 : UpperChars[u] = str[k]
        THEN LowerChars[CHOOSE u \in 1..26 : UpperChars[u] = str[k]]
        ELSE str[k]]

VariantText(variant) ==
    CASE variant = "system" -> <<"s", "y", "s", "t", "e", "m">>
      [] variant = "skill" -> <<"s", "k", "i", "l", "l">>
      [] variant = "agent" -> <<"a", "g", "e", "n", "t">>
      [] variant = "role" -> <<"r", "o", "l", "e">>
      [] variant = "task" -> <<"t", "a", "s", "k">>
      [] variant = "template" -> <<"t", "e", "m", "p", "l", "a", "t", "e">>
      [] variant = "custom" -> <<"c", "u", "s", "t", "o", "m">>

CustomPrefix == <<"c", "u", "s", "t", "o", "m", ":">>

\* Result<PromptCategory>: the match on the lower-cased text
from_str(str) ==
    LET other == to_lowercase(str)
    IN IF \E v \in UnitVariants : VariantText(v) = other
       THEN [ok |-> TRUE,
             category |-> Category(CHOOSE v \in UnitVariants : VariantText(v) = other, <<>>)]
       ELSE IF StartsAt(other, 1, CustomPrefix)
       THEN [ok |-> TRUE, category |-> Category("custom", SubSeq(other, 8, Len(other)))]
       ELSE [ok |-> FALSE, category |-> Category("invalid", other)]

----------------------------------------------------------------------------
(* PromptBank::list_by_category and PromptBank::search                      *)
(* (src/src/prompt.rs 172-187).  A sequence of references is the sequence   *)
(* of the records' positions in the collection.                             *)

\* self.prompts.iter(): the positions of the collection in order
Iter(b) == [i \in 1..Len(b.prompts) |-> i]

\* PromptBank::list_by_category
list_by_category(b, category) ==
    SelectSeq(Iter(b), LAMBDA i : b.prompts[i].category = category)

RECURSIVE ContainsFrom(_, _, _)
\* str::contains: a scan for the first position where pat starts
ContainsFrom(str, i, pat) ==
    IF i + Len(pat) - 1 > Len(str) THEN FALSE
    ELSE IF StartsAt(str, i, pat) THEN TRUE
    ELSE ContainsFrom(str, i + 1, pat)

str_contains(str, pat) == ContainsFrom(str, 1, pat)

\* the closure of search with the query taken as typed
SearchFilterRawQuery(p, query) ==
    \/ str_contains(to_lowercase(p.name), query)
    \/ str_contains(to_lowercase(p.description), query)
    \/ \E t \in 1..Len(p.tags) : str_contains(to_lowercase(p.tags[t]), query)
    \/ str_contains(to_lowercase(p.content), query)

\* the closure of search (lines 180-185)
SearchFilter(p, query) ==
    LET query_lower == to_lowercase(query)
    IN \/ str_contains(to_lowercase(p.name), query_lower)
       \/ str_contains(to_lowercase(p.description), query_lower)
       \/ \E t \in 1..Len(p.tags) : str_contains(to_lowercase(p.tags[t]), query_lower)
       \/ str_contains(to_lowercase(p.content), query_lower)

\* PromptBank::search
search(b, query) ==
    SelectSeq(Iter(b), LAMBDA i : SearchFilter(b.prompts[i], query))

----------------------------------------------------------------------------
(* serde_json of PromptBank  (src/src/prompt.rs 10-20, 56-67, 140-144;       *)
(* src/src/storage.rs 47, 53, 65, 73).  A JSON text is modelled by the value *)
(* it denotes: t is the kind of the value.                                  *)

JString(str) == [t |-> "string", str |-> str]
JArray(seq) == [t |-> "array", items |-> seq]
JObject(fields) == [t |-> "object", fields |-> fields]

\* DateTime<Utc> is written as a date-time text
TimeText(time) == <<"T", time>>
IsTimeText(str) == Len(str) = 2 /\ str[1] = "T"
ParseTime(str) == str[2]

\* a serializer that writes Custom(name) the way Display prints it
CategoryToJsonAsDisplay(category) ==
    IF category.variant = "custom"
    THEN [t |-> "string", str |-> <<"c", "u", "s", "t", "o", "m", ":">> \o category.name]
    ELSE [t |-> "string", str |-> VariantText(category.variant)]

\* #[serde(rename_all = "lowercase")] enum: a unit variant is its name as a
\* string, the newtype variant Custom(name) is the object {"custom": name}
CategoryToJson(category) ==
    IF category.variant = "custom"
    THEN JObject([custom |-> JString(category.name)])
    ELSE JString(VariantText(category.variant))

CategoryFromJson(j) ==
    IF j.t = "string"
    THEN IF \E v \in UnitVariants : VariantText(v) = j.str
         THEN [ok |-> TRUE,
               category |-> Category(CHOOSE v \in UnitVariants : VariantText(v) = j.str, <<>>)]
         ELSE [ok |-> FALSE, category |-> Category("invalid", <<>>)]
    ELSE IF j.t = "object" /\ DOMAIN j.fields = {"custom"} /\ j.fields.custom.t = "string"
    THEN [ok |-> TRUE, category |-> Category("custom", j.fields.custom.str)]
    ELSE [ok |-> FALSE, category |-> Category("invalid", <<>>)]

StringsToJson(seq) == JArray([k \in 1..Len(seq) |-> JString(seq[k])])
IsStringArray(j) == j.t = "array" /\ \A k \in 1..Len(j.items) : j.items[k].t = "string"
StringsFromJson(j) == [k \in 1..Len(j.items) |-> j.items[k].str]

\* #[derive(Serialize)] Prompt
PromptToJson(p) ==
    JObject([id |-> JString(p.id), name |-> JString(p.name),
             category |-> CategoryToJson(p.category),
             description |-> JString(p.description),
             content |-> JString(p.content),
             tags |-> StringsToJson(p.tags),
             variables |-> StringsToJson(p.variables),
             created_at |-> JString(TimeText(p.created_at)),
             updated_at |-> JString(TimeText(p.updated_at))])

PromptFields ==
    {"id", "name", "category", "description", "content", "tags", "variables",
     "created_at", "updated_at"}

\* #[derive(Deserialize)] Prompt: every field present and of its type
PromptJsonOk(j) ==
    /\ j.t = "object"
    /\ PromptFields \subseteq DOMAIN j.fields
    /\ \A f \in {"id", "name", "description", "content", "created_at", "updated_at"} :
          j.fields[f].t = "string"
    /\ CategoryFromJson(j.fields.category).ok
    /\ IsStringArray(j.fields.tags)
    /\ IsStringArray(j.fields.variables)
    /\ IsTimeText(j.fields.created_at.str)
    /\ IsTimeText(j.fields.updated_at.str)

PromptFromJson(j) ==
    MkPrompt(j.fields.id.str, j.fields.name.str,
             CategoryFromJson(j.fields.category).category,
             j.fields.description.str, j.fields.content.str,
             StringsFromJson(j.fields.tags), StringsFromJson(j.fields.variables),
             ParseTime(j.fields.created_at.str), ParseTime(j.fields.updated_at.str))

\* serde_json::to_string_pretty(bank)
to_json(b) ==
    JObject([prompts |-> JArray([k \in 1..Len(b.prompts) |-> PromptToJson(b.prompts[k])]),
             version |-> JString(b.version)])

\* serde_json::from_str::<PromptBank>: Result<PromptBank>
from_json(j) ==
    IF /\ j.t = "object"
       /\ {"prompts", "version"} \subseteq DOMAIN j.fields
       /\ j.fields.version.t = "string"
       /\ j.fields.prompts.t = "array"
       /\ \A k \in 1..Len(j.fields.prompts.items) : PromptJsonOk(j.fields.prompts.items[k])
    THEN [ok |-> TRUE,
          bank |-> [prompts |-> [k \in 1..Len(j.fields.prompts.items) |->
                                    PromptFromJson(j.fields.prompts.items[k])],
                    version |-> j.fields.version.str]]
    ELSE [ok |-> FALSE, bank |-> PromptBankNew]

----------------------------------------------------------------------------
(* Storage  (src/src/storage.rs 41-75).  A file is absent or holds a text. *)

NoFile == [exists |-> FALSE]
FileOf(text) == [exists |-> TRUE, text |-> text]

\* a load that takes a missing file for an I/O error
LoadMissingIsError(f) ==
    IF ~f.exists THEN [ok |-> FALSE, bank |-> PromptBankNew]
    ELSE from_json(f.text)

\* Storage::load: a missing file is an empty collection
load(f) ==
    IF ~f.exists THEN [ok |-> TRUE, bank |-> PromptBankNew]
    ELSE from_json(f.text)

\* Storage::save and Storage::export: the file after the write
save(b) == FileOf(to_json(b))

\* Storage::import: reading a missing file is an I/O error
import(f) ==
    IF ~f.exists THEN [ok |-> FALSE, bank |-> PromptBankNew]
    ELSE from_json(f.text)

----------------------------------------------------------------------------
(* Inputs of the store *)

\* ids and names: an id is the 8-character prefix of a random Uuid, a name
\* is free text, so a name can equal an id
StrK == <<"k">>
StrI == <<"i">>
StrN == <<"n">>
Ids == {StrK, StrI}
Names == {StrK, StrN}
LookupKeys == {StrK, StrI, StrN}

ContentA == <<"{", "{", "a", "}", "}">>
ContentB == <<"{", "{", "b", "}", "}", " ", "{", "{", "a", "}", "}">>
Contents == {ContentA, ContentB}

CatSystem == Category("system", <<>>)
CatCustomX == Category("custom", <<"x">>)

\* --category arguments: a unit variant, a custom tag, an unknown word
CategoryArgs ==
    { <<"s", "y", "s", "t", "e", "m">>,
      <<"C", "u", "s", "t", "o", "m", ":", "X">>,
      <<"b", "o", "g", "u", "s">> }

\* what Editor::edit returns: the text the user saved, or None when the
\* editor was left without saving
EditorResults ==
    {[saved |-> TRUE, text |-> c] : c \in Contents} \cup {[saved |-> FALSE, text |-> <<>>]}

\* delete: --force, or else the item selected at the question, or a
\* terminal that cannot ask
DeleteAnswers == {"force", "yes", "no", "failed"}

\* list --category: absent, or one of the arguments
ListCategoryArgs == {<<>>} \cup {<<c>> : c \in CategoryArgs}

\* --var arguments: one of the form key=value, one without '='
VarArgs == { <<"a", "=", "x">>, <<"b">> }
VarLists == Lists(VarArgs, 1)

\* what the user types when asked for a variable's value
TypedValue == <<"y">>

\* the flags of get and apply with what the terminal and the clipboard do:
\* --interactive with the outcome of Input::interact_text, --copy with the
\* outcome of copy_to_clipboard
ApplyEnvs ==
    { [interactive |-> FALSE, input |-> "unused", clipboard |-> "unused"],
      [interactive |-> TRUE, input |-> "ok", clipboard |-> "unused"],
      [interactive |-> TRUE, input |-> "failed", clipboard |-> "unused"],
      [interactive |-> FALSE, input |-> "unused", clipboard |-> "ok"],
      [interactive |-> FALSE, input |-> "unused", clipboard |-> "failed"] }
ClipboardOutcomes == {"unused", "ok", "failed"}

\* search queries of the commands: one matching in another case, one matching nothing
AppQueries == { <<"K">>, <<"z">> }

\* the records of files written by hand or by another tool: variables is
\* whatever the file says
ExternalPrompts ==
    { MkPrompt(StrK, StrN, CatCustomX, <<"e">>, ContentA, <<>>, <<<<"a">>>>, 7, 8),
      MkPrompt(StrI, StrK, CatSystem, <<"e">>, ContentA, <<>>, <<>>, 7, 8) }

ExternalVersion == <<"2", ".", "0">>

\* a file that is no JSON text, and a file whose category is no variant name
MalformedFiles ==
    { FileOf([t |-> "garbage"]),
      FileOf(JObject([prompts |-> JArray(<<
                 JObject([PromptToJson(MkPrompt(StrK, StrN, CatSystem, <<"e">>, ContentA,
                                                <<>>, <<<<"a">>>>, 7, 8)).fields
                          EXCEPT !.category = JString(<<"c", "u", "s", "t", "o", "m", ":", "x">>)])>>),
                      version |-> JString(ExternalVersion)])) }

ExternalFiles ==
    {save([prompts |-> ps, version |-> ExternalVersion]) :
        ps \in Lists(ExternalPrompts, MaxImport)} \cup MalformedFiles

\* the store specifications leave the template engine's variables alone
TemplateIdle ==
    /\ tcontent = <<>>
    /\ tvars = <<>>
    /\ tsubs = <<>>
    /\ trendered = <<>>
    /\ tpc = "idle"

\* the processes of the concurrent specification
Procs == {1, 2}

\* no concurrent invocation is running
ProcsIdle == [p \in Procs |-> [pc |-> "idle", bank |-> PromptBankNew]]

\* the template specifications leave the store's variables alone
StoreIdle ==
    /\ procs = ProcsIdle
    /\ bank = PromptBankNew
    /\ file = NoFile
    /\ xfile = NoFile
    /\ clock = 0
    /\ cmd = [op |-> "none"]

----------------------------------------------------------------------------
(* Specification SpecBank: the operations of PromptBank on one collection *)

BankPrompts ==
    {MkPrompt(id, name, CatSystem, <<"d">>, content, <<>>, extract_variables(content), 0, 0) :
        id \in Ids, name \in Names, content \in Contents}

InitBank ==
    /\ TemplateIdle
    /\ procs = ProcsIdle
    /\ bank = PromptBankNew
    /\ file = NoFile
    /\ xfile = NoFile
    /\ clock = 0
    /\ cmd = [op |-> "none"]

BankAdd ==
    /\ Len(bank.prompts) < MaxBank
    /\ \E prompt \in BankPrompts :
         /\ bank' = add(bank, prompt)
         /\ cmd' = [op |-> "add"]
    /\ UNCHANGED <<file, xfile, clock>>
    /\ UNCHANGED <<tvarsAll, procs>>

BankGet ==
    /\ \E key \in LookupKeys :
         cmd' = [op |-> "get", key |-> key, ret |-> get(bank, key)]
    /\ UNCHANGED <<bank, file, xfile, clock>>
    /\ UNCHANGED <<tvarsAll, procs>>

BankDelete ==
    /\ \E key \in LookupKeys :
         LET r == delete(bank, key)
         IN /\ bank' = r.bank
            /\ cmd' = [op |-> "delete", key |-> key, ret |-> r.ret]
    /\ UNCHANGED <<file, xfile, clock>>
    /\ UNCHANGED <<tvarsAll, procs>>

NextBank == BankAdd \/ BankGet \/ BankDelete

SpecBank == InitBank /\ [][NextBank]_vars

----------------------------------------------------------------------------
(* App  (src/src/cli.rs 138-477, src/src/main.rs 11-20).  One action is one  *)
(* invocation: App::new loads the backing file, run performs the command,   *)
(* and main turns an Err into exit code 1.  cmd is the invocation under way *)
(* (none between invocations) and bank the collection in memory at its end. *)
(* Once a file has been exported, the invocations that follow are exports   *)
(* and imports of that file.  The writes of fs::write succeed.              *)

\* App::new failed: Storage::load returned Err, run is never called
LoadFailed(op) ==
    /\ cmd' = [op |-> op, exit |-> 1, err |-> "Load", saved |-> FALSE, writes |-> 0,
               loaded |-> FALSE]
    /\ UNCHANGED <<bank, file, xfile, clock>>

\* a command that saves the collection before it returns Err(err)
FailedAfterSave(op, args, b, err) ==
    /\ bank' = b
    /\ file' = save(b)
    /\ cmd' = args @@ [op |-> op, exit |-> 1, err |-> err, saved |-> TRUE, writes |-> 1,
                       loaded |-> TRUE]
    /\ UNCHANGED <<xfile, clock>>

\* the command returned Err(err) before changing anything
Failed(op, args, b, err) ==
    /\ bank' = b
    /\ cmd' = args @@ [op |-> op, exit |-> 1, err |-> err, saved |-> FALSE, writes |-> 0,
                       loaded |-> TRUE]
    /\ UNCHANGED <<file, xfile, clock>>

\* a command that returns Ok(()) having saved the collection it loaded
SavedUnchanged(op, args, b) ==
    /\ bank' = b
    /\ file' = save(b)
    /\ cmd' = args @@ [op |-> op, exit |-> 0, err |-> "none", saved |-> TRUE, writes |-> 1,
                       loaded |-> TRUE]
    /\ UNCHANGED <<xfile, clock>>

\* the command returned Ok(()) without saving
Unsaved(op, args, b) ==
    /\ bank' = b
    /\ cmd' = args @@ [op |-> op, exit |-> 0, err |-> "none", saved |-> FALSE, writes |-> 0,
                       loaded |-> TRUE]
    /\ UNCHANGED <<file, xfile, clock>>

\* the command changed the collection to b, saved it with its one call of
\* Storage::save and returned Ok(())
Saved(op, args, b) ==
    /\ bank' = b
    /\ file' = save(b)
    /\ cmd' = args @@ [op |-> op, exit |-> 0, err |-> "none", saved |-> TRUE, writes |-> 1,
                       loaded |-> TRUE]
    /\ UNCHANGED xfile

\* App::add_prompt (lines 180-258), every argument given on the command line
AddPrompt ==
    /\ cmd.op = "none"
    /\ ~xfile.exists
    /\ UNCHANGED <<tvarsAll, procs>>
    /\ \E loaded \in {load(file)} :
       \E name \in Names, category \in CategoryArgs, id \in Ids :
       \E cat \in {from_str(category)} :
           LET args == [name |-> name, category |-> category]
           IN IF ~loaded.ok THEN LoadFailed("add")
              ELSE IF ~cat.ok THEN Failed("add", args, loaded.bank, "InvalidCategory")
              ELSE /\ Len(loaded.bank.prompts) < MaxPrompts
                   /\ clock < MaxClock
                   /\ clock' = clock + 1
                   /\ Saved("add", args,
                            add(loaded.bank,
                                PromptNew(id, clock, name, cat.category, <<"d">>,
                                          ContentA, <<<<"t">>>>)))

\* App::edit_prompt (lines 364-391): editor is what Editor::edit returns
EditPrompt ==
    /\ cmd.op = "none"
    /\ ~xfile.exists
    /\ UNCHANGED <<tvarsAll, procs>>
    /\ \E loaded \in {load(file)} :
       \E key \in LookupKeys, editor \in EditorResults :
       \E at \in {get(loaded.bank, key)} :
           LET b == loaded.bank
               current_content == b.prompts[at].content
               new_content == editor.text
               args == [key |-> key, editor |-> editor]
           IN IF ~loaded.ok THEN LoadFailed("edit")
              ELSE IF at = 0 THEN Failed("edit", args, b, "PromptNotFound")
              ELSE IF ~editor.saved THEN Failed("edit", args, b, "InvalidInput")
              ELSE IF new_content = current_content THEN Unsaved("edit", args, b)
              ELSE /\ clock < MaxClock
                   /\ clock' = clock + 1
                   /\ Saved("edit", args,
                            [b EXCEPT !.prompts[get(b, key)] =
                                           update_content(@, new_content, clock)])

\* App::delete_prompt (lines 393-420): with --force, or after the answer Yes
\* or No to the question
DeletePrompt ==
    /\ cmd.op = "none"
    /\ ~xfile.exists
    /\ UNCHANGED <<tvarsAll, procs>>
    /\ \E loaded \in {load(file)} :
       \E key \in LookupKeys, answer \in DeleteAnswers :
           LET b == loaded.bank
               args == [key |-> key, answer |-> answer]
           IN IF ~loaded.ok THEN LoadFailed("delete")
              ELSE IF get(b, key) = 0 THEN Failed("delete", args, b, "PromptNotFound")
              ELSE IF answer = "failed" THEN Failed("delete", args, b, "InvalidInput")
              ELSE IF answer = "no" THEN Unsaved("delete", args, b)
              ELSE Saved("delete", args, delete(b, key).bank) /\ UNCHANGED clock

\* App::export_prompts (lines 444-453)
ExportPrompts ==
    /\ cmd.op = "none"
    /\ UNCHANGED <<tvarsAll, procs>>
    /\ \E loaded \in {load(file)} :
           IF ~loaded.ok THEN LoadFailed("export")
           ELSE /\ xfile' = save(loaded.bank)
                /\ bank' = loaded.bank
                /\ cmd' = [op |-> "export", exit |-> 0, err |-> "none", saved |-> FALSE,
                           writes |-> 0, loaded |-> TRUE]
                /\ UNCHANGED <<file, clock>>

\* a merge that appends every imported record
MergeAppendingAll(b, prompts, k) ==
    [b EXCEPT !.prompts = @ \o SubSeq(prompts, k, Len(prompts))]

RECURSIVE MergeFrom(_, _, _)
\* the for loop of import_prompts (lines 460-464) from the k-th imported record
MergeFrom(b, prompts, k) ==
    IF k > Len(prompts) THEN b
    ELSE MergeFrom(IF get(b, prompts[k].id) = 0 THEN add(b, prompts[k]) ELSE b,
                   prompts, k + 1)

\* a full replace that keeps the version tag of the collection in memory
ReplaceKeepingVersion(b, imported) == [imported EXCEPT !.version = b.version]

\* the else branch of import_prompts (line 466)
ReplaceBank(b, imported) == imported

\* the files the path given to import can hold: the exported file, or else
\* none, or a file written by hand or by another tool
ImportInputs == IF xfile.exists THEN {xfile} ELSE {NoFile} \cup ExternalFiles

\* App::import_prompts (lines 455-477): input is the file at the given path
ImportPrompts ==
    /\ cmd.op = "none"
    /\ UNCHANGED <<tvarsAll, procs>>
    /\ \E loaded \in {load(file)} :
       \E input \in ImportInputs, merge \in BOOLEAN :
       \E imported \in {import(input)} :
       \E result \in {IF merge THEN MergeFrom(loaded.bank, imported.bank.prompts, 1)
                      ELSE ReplaceBank(loaded.bank, imported.bank)} :
           LET args == [input |-> input, merge |-> merge]
           IN IF ~loaded.ok THEN LoadFailed("import")
              ELSE IF ~imported.ok THEN Failed("import", args, loaded.bank,
                                                IF input.exists THEN "Json" ELSE "Io")
              ELSE /\ Len(result.prompts) <= MaxPrompts
                   /\ Saved("import", args, result)
                   /\ UNCHANGED clock

\* App::list_prompts (lines 260-284)
ListPrompts ==
    /\ cmd.op = "none"
    /\ ~xfile.exists
    /\ UNCHANGED <<tvarsAll, procs>>
    /\ \E loaded \in {load(file)} :
       \E category \in ListCategoryArgs :
       \E cat \in {IF category = <<>> THEN [ok |-> TRUE, category |-> CatSystem]
                    ELSE from_str(category[1])} :
           LET b == loaded.bank
               args == [category |-> category]
               prompts == IF category = <<>> THEN Iter(b)
                          ELSE list_by_category(b, cat.category)
           IN IF ~loaded.ok THEN LoadFailed("list")
              ELSE IF ~cat.ok THEN Failed("list", args, b, "InvalidCategory")
              ELSE Unsaved("list", args @@ [output |-> prompts], b)

\* App::get_prompt (lines 286-306)
GetPrompt ==
    /\ cmd.op = "none"
    /\ ~xfile.exists
    /\ UNCHANGED <<tvarsAll, procs>>
    /\ \E loaded \in {load(file)} :
       \E key \in LookupKeys, clipboard \in ClipboardOutcomes :
           LET b == loaded.bank
               args == [key |-> key, clipboard |-> clipboard]
           IN IF ~loaded.ok THEN LoadFailed("get")
              ELSE IF get(b, key) = 0 THEN Failed("get", args, b, "PromptNotFound")
              ELSE IF clipboard = "failed" THEN Failed("get", args, b, "Clipboard")
              ELSE Unsaved("get", args @@ [output |-> get(b, key)], b)

RECURSIVE EqualsFrom(_, _)
\* the position of the first '=' of var from i on, 0 when there is none
EqualsFrom(var, i) ==
    IF i > Len(var) THEN 0
    ELSE IF var[i] = "=" THEN i
    ELSE EqualsFrom(var, i + 1)

RECURSIVE ParseVars(_)
\* the for loop of apply_prompt (lines 323-328): splitn(2, '=') of each var
ParseVars(var_args) ==
    IF var_args = <<>> THEN <<>>
    ELSE LET var == Head(var_args)
             e == EqualsFrom(var, 1)
         IN (IF e = 0 THEN <<>>
             ELSE << <<SubSeq(var, 1, e - 1), SubSeq(var, e + 1, Len(var))>> >>)
            \o ParseVars(Tail(var_args))

RECURSIVE AskVariables(_, _)
\* the interactive loop of apply_prompt (lines 338-347): a value is asked for
\* each variable no substitution names yet
AskVariables(variables, substitutions) ==
    IF variables = <<>> THEN substitutions
    ELSE AskVariables(Tail(variables),
                      IF \E k \in 1..Len(substitutions) :
                             substitutions[k][1] = Head(variables)
                      THEN substitutions
                      ELSE Append(substitutions, <<Head(variables), TypedValue>>))

\* App::apply_prompt (lines 308-362)
ApplyPrompt ==
    /\ cmd.op = "none"
    /\ ~xfile.exists
    /\ UNCHANGED <<tvarsAll, procs>>
    /\ \E loaded \in {load(file)} :
       \E key \in LookupKeys, var_args \in VarLists, env \in ApplyEnvs :
           LET b == loaded.bank
               args == [key |-> key, var |-> var_args, env |-> env]
               prompt == b.prompts[get(b, key)]
               parsed == ParseVars(var_args)
               substitutions == IF env.interactive /\ prompt.variables # <<>>
                                THEN AskVariables(prompt.variables, parsed)
                                ELSE parsed
               rendered == render(prompt.content, substitutions)
           IN IF ~loaded.ok THEN LoadFailed("apply")
              ELSE IF get(b, key) = 0 THEN Failed("apply", args, b, "PromptNotFound")
              ELSE IF env.input = "failed" /\ substitutions # parsed
                   THEN Failed("apply", args, b, "InvalidInput")
              ELSE IF env.clipboard = "failed" THEN Failed("apply", args, b, "Clipboard")
              ELSE Unsaved("apply", args @@ [output |-> rendered], b)

\* App::search_prompts (lines 422-442)
SearchPrompts ==
    /\ cmd.op = "none"
    /\ ~xfile.exists
    /\ UNCHANGED <<tvarsAll, procs>>
    /\ \E loaded \in {load(file)} :
       \E query \in AppQueries :
           LET b == loaded.bank
           IN IF ~loaded.ok THEN LoadFailed("search")
              ELSE Unsaved("search", [query |-> query, output |-> search(b, query)], b)

\* App::show_info (lines 479-499)
ShowInfo ==
    /\ cmd.op = "none"
    /\ ~xfile.exists
    /\ UNCHANGED <<tvarsAll, procs>>
    /\ \E loaded \in {load(file)} :
           LET b == loaded.bank
           IN IF ~loaded.ok THEN LoadFailed("info")
              ELSE Unsaved("info", [output |-> Len(b.prompts)], b)

\* main returns, or exits with code 1 (main.rs 16-19): the process ends
Exit ==
    /\ cmd.op # "none"
    /\ cmd' = [op |-> "none"]
    /\ UNCHANGED <<bank, file, xfile, clock>>
    /\ UNCHANGED <<tvarsAll, procs>>

Init ==
    /\ TemplateIdle
    /\ procs = ProcsIdle
    /\ bank = PromptBankNew
    /\ file = NoFile
    /\ xfile = NoFile
    /\ clock = 0
    /\ cmd = [op |-> "none"]

Next ==
    \/ AddPrompt
    \/ EditPrompt
    \/ DeletePrompt
    \/ ExportPrompts
    \/ ImportPrompts
    \/ ListPrompts
    \/ GetPrompt
    \/ ApplyPrompt
    \/ SearchPrompts
    \/ ShowInfo
    \/ Exit

Spec == Init /\ [][Next]_vars

----------------------------------------------------------------------------
(* Inputs of the template engine *)

ExtractFragments ==
    { <<"{", "{", "a", "}", "}">>, <<"{", "{", "b", "}", "}">>,
      Open, Close, <<"{">>, <<"}">>, <<"a">>, <<" ">> }

ExtractContents == Concats(ExtractFragments, MaxFrags)

RenderFragments ==
    { <<"{", "{", "a", "}", "}">>, <<"{", "{", "b", "}", "}">>,
      Open, Close, <<"a">> }

RenderContents == Concats(RenderFragments, MaxRFrags)

SubKeys == { <<"a">>, <<"b">>, <<"a", "}", "}", "{", "{", "b">> }
SubValues == { <<"x">>, <<"{", "{", "b", "}", "}">> }
SubPairs == SubKeys \X SubValues

SubLists == Lists(SubPairs, MaxSubs)

----------------------------------------------------------------------------
(* Specification SpecExtract: extract_variables on a bounded set of contents *)

InitExtract ==
    /\ StoreIdle
    /\ tcontent \in ExtractContents
    /\ tvars = <<>>
    /\ tsubs = <<>>
    /\ trendered = <<>>
    /\ tpc = "input"

ExtractAct ==
    /\ tpc = "input"
    /\ tvars' = extract_variables(tcontent)
    /\ tpc' = "extracted"
    /\ UNCHANGED <<tcontent, tsubs, trendered>>
    /\ UNCHANGED svarsAll

NextExtract == ExtractAct

SpecExtract == InitExtract /\ [][NextExtract]_vars

----------------------------------------------------------------------------
(* Specification SpecRender: render on bounded contents and substitutions *)

InitRender ==
    /\ StoreIdle
    /\ tcontent \in RenderContents
    /\ tvars = extract_variables(tcontent)
    /\ tsubs = <<>>
    /\ trendered = <<>>
    /\ tpc = "input"

RenderAct ==
    /\ tpc = "input"
    /\ \E s \in SubLists :
         /\ tsubs' = s
         /\ trendered' = render(tcontent, s)
    /\ tpc' = "rendered"
    /\ UNCHANGED <<tcontent, tvars>>
    /\ UNCHANGED svarsAll

NextRender == RenderAct

SpecRender == InitRender /\ [][NextRender]_vars

----------------------------------------------------------------------------
(* Specification SpecRace: two invocations of add on the same backing file. *)
(* Each process runs App::new (load), then add_prompt up to bank.add, then  *)
(* Storage::save and returns; the steps of the two interleave freely, as no *)
(* lock is taken on the file.                                               *)

\* a save that keeps the records of the file that the memory lacks
WriteMerging(old, b) ==
    save([b EXCEPT !.prompts =
             SelectSeq(load(old).bank.prompts,
                       LAMBDA r : \A i \in 1..Len(b.prompts) : b.prompts[i] # r)
             \o b.prompts])

\* fs::write of Storage::save: the file is replaced by the serialized collection
Overwrite(old, b) == save(b)

InitRace ==
    /\ TemplateIdle
    /\ StoreIdle

\* App::new in process p
RaceLoad(p) ==
    /\ procs[p].pc = "idle"
    /\ load(file).ok
    /\ procs' = [procs EXCEPT ![p] = [pc |-> "loaded", bank |-> load(file).bank]]
    /\ cmd' = [op |-> "load", proc |-> p]
    /\ UNCHANGED <<bank, file, xfile, clock>>
    /\ UNCHANGED tvarsAll

\* add_prompt in process p up to self.bank.add(prompt) (lines 251-253)
RaceAdd(p) ==
    /\ procs[p].pc = "loaded"
    /\ \E id \in Ids, name \in Names :
         procs' = [procs EXCEPT ![p] =
                      [pc |-> "added",
                       bank |-> add(procs[p].bank,
                                    PromptNew(id, clock, name, CatSystem, <<"d">>,
                                              ContentA, <<>>))]]
    /\ cmd' = [op |-> "add", proc |-> p]
    /\ UNCHANGED <<bank, file, xfile, clock>>
    /\ UNCHANGED tvarsAll

\* self.storage.save(&self.bank) in process p (line 254), then the process ends
RaceSave(p) ==
    /\ procs[p].pc = "added"
    /\ file' = Overwrite(file, procs[p].bank)
    /\ procs' = [procs EXCEPT ![p].pc = "done"]
    /\ cmd' = [op |-> "save", proc |-> p]
    /\ UNCHANGED <<bank, xfile, clock>>
    /\ UNCHANGED tvarsAll

NextRace ==
    \E p \in Procs :
        \/ RaceLoad(p)
        \/ RaceAdd(p)
        \/ RaceSave(p)

SpecRace == InitRace /\ [][NextRace]_vars

----------------------------------------------------------------------------
(* Specification SpecSearch: PromptBank::search on bounded collections *)

\* records whose name, description, tags and content hold the letters f and
\* o in either case, or none of them
SearchRecords ==
    {MkPrompt(StrI, name, CatSystem, description, content, tags, <<>>, 0, 0) :
        name \in { <<"n">>, <<"x", "F", "O">> },
        description \in { <<"d">>, <<"F", "o">> },
        content \in { <<"a">>, <<"f", "O", "o">> },
        tags \in { <<>>, << <<"t">>, <<"o", "F">> >> }}

\* queries in lower, upper and mixed case, the empty query, a query that
\* matches nothing
Queries == { <<"f", "o">>, <<"F", "O">>, <<"o", "F">>, <<>>, <<"z">> }

InitSearch ==
    /\ TemplateIdle
    /\ procs = ProcsIdle
    /\ bank \in {[prompts |-> ps, version |-> PromptBankNew.version] :
                    ps \in Lists(SearchRecords, MaxSearch)}
    /\ file = NoFile
    /\ xfile = NoFile
    /\ clock = 0
    /\ cmd = [op |-> "none"]

BankSearch ==
    /\ \E query \in Queries :
         cmd' = [op |-> "search", query |-> query, ret |-> search(bank, query)]
    /\ UNCHANGED <<bank, file, xfile, clock>>
    /\ UNCHANGED <<tvarsAll, procs>>

NextSearch == BankSearch

SpecSearch == InitSearch /\ [][NextSearch]_vars

----------------------------------------------------------------------------
(* Placeholders as the specification describes them: the text between a     *)
(* "{{" and the next "}}", the scan resuming right after the "}}".          *)

\* least index i >= from at which p occurs in s; 0 when there is none
FirstAt(s, from, p) ==
    LET I == {i \in from..Len(s) : StartsAt(s, i, p)}
    IN IF I = {} THEN 0 ELSE CHOOSE i \in I : \A j \in I : i <= j

RECURSIVE ClosedNames(_, _, _)
\* the non-empty names of the closed placeholders of s from index from on,
\* each once, in order of first occurrence
ClosedNames(s, from, acc) ==
    LET o == FirstAt(s, from, Open)
        c == IF o = 0 THEN 0 ELSE FirstAt(s, o + 2, Close)
        name == SubSeq(s, o + 2, c - 1)
    IN IF o = 0 \/ c = 0 THEN acc
       ELSE ClosedNames(s, c + 2,
                IF name # <<>> /\ ~Contains(acc, name) THEN Append(acc, name) ELSE acc)

RECURSIVE DanglingAt(_, _)
\* index of the "{{" the scan opens and never closes; 0 when there is none
DanglingAt(s, from) ==
    LET o == FirstAt(s, from, Open)
        c == IF o = 0 THEN 0 ELSE FirstAt(s, o + 2, Close)
    IN IF o = 0 THEN 0
       ELSE IF c = 0 THEN o
       ELSE DanglingAt(s, c + 2)

\* C3: when an opening "{{" has no matching "}}" before the end of input,
\* the text after it contributes nothing: extract returns what it returns
\* for the content cut right before the dangling "{{".
C3_DanglingDropped ==
    (tpc = "extracted" /\ DanglingAt(tcontent, 1) # 0)
        => tvars = extract_variables(SubSeq(tcontent, 1, DanglingAt(tcontent, 1) - 1))

\* C4: extract returns the non-empty texts between each "{{" and the next
\* "}}", scanning left to right and resuming after each "}}", each name once
\* at its first occurrence, in occurrence order.
C4_ExtractIsClosedNames ==
    tpc = "extracted" => tvars = ClosedNames(tcontent, 1, <<>>)

\* C4 on the contents without a dangling "{{" (where C3's defect is silent)
C4_HoldsWithoutDangling ==
    (tpc = "extracted" /\ DanglingAt(tcontent, 1) = 0)
        => tvars = ClosedNames(tcontent, 1, <<>>)

----------------------------------------------------------------------------
(* Claims about render *)

Keys(substitutions) == {substitutions[k][1] : k \in 1..Len(substitutions)}

HasBrace(str) == \E k \in 1..Len(str) : str[k] \in {"{", "}"}

RECURSIVE ClosedOccs(_, _)
\* the closed placeholders of s from index from on, as found by the scan:
\* o the index of the "{{", c the index of its "}}"
ClosedOccs(s, from) ==
    LET o == FirstAt(s, from, Open)
        c == IF o = 0 THEN 0 ELSE FirstAt(s, o + 2, Close)
    IN IF o = 0 \/ c = 0 THEN {}
       ELSE {[o |-> o, c |-> c]} \cup ClosedOccs(s, c + 2)

OccName(s, occ) == SubSeq(s, occ.o + 2, occ.c - 1)

\* the placeholder occ of s is found verbatim in out, between the renderings
\* of the text before it and of the text after it
KeptVerbatim(s, occ, substitutions, out) ==
    out = render(SubSeq(s, 1, occ.o - 1), substitutions)
            \o Pattern(OccName(s, occ))
            \o render(SubSeq(s, occ.c + 2, Len(s)), substitutions)

\* C5 as stated: every placeholder {{n}} of the content whose name n is not
\* among the supplied keys appears unchanged in the output of render, at the
\* same position relative to the surrounding text.
C5_UnmatchedVerbatim ==
    tpc = "rendered" =>
        \A occ \in ClosedOccs(tcontent, 1) :
            OccName(tcontent, occ) \notin Keys(tsubs)
                => KeptVerbatim(tcontent, occ, tsubs, trendered)

\* C5 amended: every placeholder {{n}} of the content whose name n holds no
\* brace and is not among the supplied keys appears unchanged in the output,
\* at the same position relative to the surrounding text, provided no
\* supplied key holds a brace.
C5_UnmatchedVerbatimPlainNames ==
    (tpc = "rendered" /\ \A k \in Keys(tsubs) : ~HasBrace(k)) =>
        \A occ \in ClosedOccs(tcontent, 1) :
            (~HasBrace(OccName(tcontent, occ)) /\ OccName(tcontent, occ) \notin Keys(tsubs))
                => KeptVerbatim(tcontent, occ, tsubs, trendered)

\* a render that substituted one placeholder and left another, unmatched one
C5_Witness ==
    /\ tpc = "rendered"
    /\ \A k \in Keys(tsubs) : ~HasBrace(k)
    /\ trendered # tcontent
    /\ \E occ \in ClosedOccs(tcontent, 1) :
          /\ OccName(tcontent, occ) # <<>>
          /\ ~HasBrace(OccName(tcontent, occ))
          /\ OccName(tcontent, occ) \notin Keys(tsubs)

RECURSIVE ReplaceEvery(_, _, _)
\* every literal occurrence of p in s replaced by v: s is split at the first
\* occurrence and the rest is treated likewise
ReplaceEvery(s, p, v) ==
    LET i == FirstAt(s, 1, p)
    IN IF i = 0 THEN s
       ELSE SubSeq(s, 1, i - 1) \o v \o ReplaceEvery(SubSeq(s, i + Len(p), Len(s)), p, v)

RECURSIVE FoldSubstitutions(_, _)
\* the left fold over the pairs: the last pair rewrites the fold of the others
FoldSubstitutions(s, substitutions) ==
    IF substitutions = <<>> THEN s
    ELSE LET n == Len(substitutions)
             kv == substitutions[n]
         IN ReplaceEvery(FoldSubstitutions(s, SubSeq(substitutions, 1, n - 1)),
                         <<"{", "{">> \o kv[1] \o <<"}", "}">>, kv[2])

\* C6: render equals the left fold, in supplied order, of 'replace every
\* literal occurrence of {{ki}} by vi' over the progressively rewritten
\* string, and render does not modify the content it renders.
C6_RenderIsLeftFold ==
    /\ [](tpc = "rendered" => trendered = FoldSubstitutions(tcontent, tsubs))
    /\ [][tcontent' = tcontent]_vars

\* a later pair rewrote text that an earlier value introduced
C6_Witness ==
    /\ tpc = "rendered"
    /\ Len(tsubs) = 2
    /\ ReplaceEvery(tcontent, <<"{", "{">> \o tsubs[2][1] \o <<"}", "}">>, tsubs[2][2]) = tcontent
    /\ trendered # render(tcontent, <<tsubs[1]>>)

----------------------------------------------------------------------------
(* Claims about PromptBank *)

\* least element of a non-empty set of indices, 0 for the empty set
MinOrZero(I) == IF I = {} THEN 0 ELSE CHOOSE i \in I : \A j \in I : i <= j

\* lookup with priority to the id: the first record whose id is key, and
\* only when there is none the first record whose name is key
IdFirstLookup(prompts, key) ==
    LET byId == {i \in 1..Len(prompts) : prompts[i].id = key}
        byName == {i \in 1..Len(prompts) : prompts[i].name = key}
    IN IF byId # {} THEN MinOrZero(byId) ELSE MinOrZero(byName)

\* C1: lookup(key) returns the first record whose id equals key if any such
\* record exists, and only when no record has that id the first record whose
\* name equals key.
C1_IdTakesPriority ==
    cmd.op = "get" => cmd.ret = IdFirstLookup(bank.prompts, cmd.key)

\* the records of prompts whose id and name both differ from key, in order
Survivors(prompts, key) ==
    LET Keep(p) == p.id # key /\ p.name # key
    IN SelectSeq(prompts, Keep)

\* C7: delete(key) leaves exactly the records whose id and name differ from
\* key, in their original order, and returns true iff a record was removed;
\* when no record has id or name equal to key it returns false and leaves
\* the collection unchanged.
C7_DeleteRemovesAllMatches ==
    [][cmd'.op = "delete" =>
          /\ bank'.prompts = Survivors(bank.prompts, cmd'.key)
          /\ bank'.version = bank.version
          /\ cmd'.ret = (Len(bank'.prompts) < Len(bank.prompts))
          /\ (\A i \in 1..Len(bank.prompts) :
                  bank.prompts[i].id # cmd'.key /\ bank.prompts[i].name # cmd'.key)
                => (cmd'.ret = FALSE /\ bank' = bank)]_vars

\* a delete that removed a record and left another
C7_Witness ==
    /\ cmd.op = "delete"
    /\ cmd.ret = TRUE
    /\ bank.prompts # <<>>

----------------------------------------------------------------------------
(* Claims about the commands *)

\* C2: in every state reachable by add, edit, delete and import (with or
\* without --merge) from an empty store, every record's variables field
\* equals extract(content) of that record's current content.
C2_VariablesFollowContent ==
    \A i \in 1..Len(bank.prompts) :
        bank.prompts[i].variables = extract_variables(bank.prompts[i].content)

RECURSIVE MergeSkippingIds(_, _)
\* the imported records taken in file order, one skipped exactly when a
\* record with its id is in the collection, every other one appended
MergeSkippingIds(prompts, imported) ==
    IF imported = <<>> THEN prompts
    ELSE MergeSkippingIds(
            IF \E i \in 1..Len(prompts) : prompts[i].id = Head(imported).id
            THEN prompts ELSE Append(prompts, Head(imported)),
            Tail(imported))

\* C8: import with --merge processes the imported records in file order and
\* skips one exactly when a record with the same id already exists in the
\* collection; every other one is appended, and the records present before
\* remain unchanged and in the same order.
C8_MergeSkipsExistingIds ==
    [][(cmd'.op = "import" /\ cmd'.exit = 0 /\ cmd'.merge) =>
          bank'.prompts = MergeSkippingIds(load(file).bank.prompts,
                                           import(cmd'.input).bank.prompts)]_vars

\* C9: after a successful import without --merge the collection in memory
\* and the saved backing file equal the imported collection: same records in
\* the same order, same version tag, nothing of the former collection left.
C9_ImportReplaces ==
    (cmd.op = "import" /\ cmd.exit = 0 /\ ~cmd.merge) =>
        /\ bank = import(cmd.input).bank
        /\ cmd.saved
        /\ file.exists
        /\ load(file) = [ok |-> TRUE, bank |-> import(cmd.input).bank]

\* an import without --merge, after records had been added, that left only
\* the records of the file
C9_Witness ==
    /\ cmd.op = "import" /\ cmd.exit = 0 /\ ~cmd.merge
    /\ clock > 0
    /\ bank.version = ExternalVersion
    /\ Len(bank.prompts) = 1

\* C10: save followed by load on the same path yields the same records in
\* the same order with equal field values and the same version; likewise
\* export followed by an import without --merge.
C10_RoundTrip ==
    /\ [](load(save(bank)) = [ok |-> TRUE, bank |-> bank])
    /\ []((cmd.op # "none" /\ cmd.saved) => load(file) = [ok |-> TRUE, bank |-> bank])
    /\ []((cmd.op = "export" /\ cmd.exit = 0) => import(xfile) = [ok |-> TRUE, bank |-> bank])
    /\ [][(cmd'.op = "import" /\ cmd'.exit = 0 /\ ~cmd'.merge /\ cmd'.input = xfile)
            => (bank' = bank /\ load(file') = [ok |-> TRUE, bank |-> bank])]_vars

\* an exported collection with a custom category, tags, variables and an
\* edit, imported again without --merge and saved
C10_Witness ==
    /\ cmd.op = "import" /\ cmd.exit = 0 /\ ~cmd.merge /\ cmd.saved
    /\ xfile.exists /\ cmd.input = xfile
    /\ Len(bank.prompts) = 2
    /\ \E i \in 1..2 :
          /\ bank.prompts[i].category.variant = "custom"
          /\ bank.prompts[i].category.name # <<>>
          /\ bank.prompts[i].tags # <<>>
          /\ Len(bank.prompts[i].variables) = 2
          /\ bank.prompts[i].updated_at # bank.prompts[i].created_at

----------------------------------------------------------------------------
(* Claims about the invocations *)

\* C11: when the backing file does not exist, load succeeds with an empty
\* collection (zero records, version "1.0") and does not create the file;
\* the file first appears only when a mutating command saves.
C11_MissingFileIsEmpty ==
    [][(cmd.op = "none" /\ cmd'.op # "none" /\ ~file.exists) =>
          /\ cmd'.loaded
          /\ load(file) = [ok |-> TRUE,
                           bank |-> [prompts |-> <<>>, version |-> <<"1", ".", "0">>]]
          /\ cmd'.writes = 0 =>
                (~file'.exists /\ bank'.prompts = <<>> /\ bank'.version = <<"1", ".", "0">>)
          /\ file'.exists =>
                (cmd'.op \in {"add", "import"} /\ cmd'.writes = 1 /\ file' = save(bank'))]_vars

\* a list on a store that has no backing file: it succeeded, showed nothing
\* and left the file absent
C11_Witness ==
    /\ cmd.op = "list" /\ cmd.exit = 0 /\ cmd.loaded
    /\ cmd.output = <<>>
    /\ ~file.exists
    /\ bank.prompts = <<>>

----------------------------------------------------------------------------
(* Claims about search *)

\* x occurs in y as a contiguous run of characters
IsSubstring(x, y) ==
    \E i \in 0..(Len(y) - Len(x)) : SubSeq(y, i + 1, i + Len(x)) = x

\* the lower-cased query is a substring of the lower-cased name, description,
\* content or of at least one lower-cased tag
QueryMatches(p, query) ==
    LET q == to_lowercase(query)
    IN \/ IsSubstring(q, to_lowercase(p.name))
       \/ IsSubstring(q, to_lowercase(p.description))
       \/ IsSubstring(q, to_lowercase(p.content))
       \/ \E t \in 1..Len(p.tags) : IsSubstring(q, to_lowercase(p.tags[t]))

\* C12: search(query) returns exactly the records for which the lower-cased
\* query is a substring of the lower-cased name, description, content or of
\* at least one tag, in original collection order; a record matching in
\* none of these fields is never returned.
C12_SearchIsSubstringFilter ==
    cmd.op = "search" =>
        /\ \A k \in 1..Len(cmd.ret) :
              /\ cmd.ret[k] \in 1..Len(bank.prompts)
              /\ QueryMatches(bank.prompts[cmd.ret[k]], cmd.query)
        /\ \A i \in 1..Len(bank.prompts) :
              QueryMatches(bank.prompts[i], cmd.query) =>
                  \E k \in 1..Len(cmd.ret) : cmd.ret[k] = i
        /\ \A k \in 1..(Len(cmd.ret) - 1) : cmd.ret[k] < cmd.ret[k + 1]

\* an upper-case query that found the second of two records, by its
\* description alone, and not the first
C12_Witness ==
    /\ cmd.op = "search"
    /\ cmd.query = <<"F", "O">>
    /\ Len(bank.prompts) = 2
    /\ cmd.ret = <<2>>
    /\ bank.prompts[2].description = <<"F", "o">>
    /\ bank.prompts[2].name = <<"n">>
    /\ bank.prompts[2].content = <<"a">>
    /\ bank.prompts[2].tags = <<>>

\* the text is one of the six category names or starts with "custom:",
\* whatever its case
RecognizedCategory(str) ==
    LET lower == to_lowercase(str)
    IN \/ \E v \in UnitVariants : lower = VariantText(v)
       \/ (Len(lower) >= 7 /\ SubSeq(lower, 1, 7) = CustomPrefix)

\* no record of the collection has key as its id or as its name
MatchesNoRecord(prompts, key) ==
    \A i \in 1..Len(prompts) : prompts[i].id # key /\ prompts[i].name # key

\* C13: a command that surfaces an error exits with code 1 having left the
\* collection in memory as loaded and having saved nothing; get, apply, edit
\* and delete with a key matching no record, add and list with an
\* unrecognized category, and import from an unreadable or malformed file
\* are such errors; a command that returns without error exits with code 0.
C13_ErrorsAbort ==
    [][(cmd.op = "none" /\ cmd'.op # "none") =>
          /\ cmd'.exit = (IF cmd'.err = "none" THEN 0 ELSE 1)
          /\ cmd'.exit = 1 =>
                /\ bank' = load(file).bank
                /\ file' = file
                /\ xfile' = xfile
                /\ cmd'.writes = 0
          /\ (/\ cmd'.op \in {"get", "apply", "edit", "delete"}
              /\ MatchesNoRecord(load(file).bank.prompts, cmd'.key))
                => (cmd'.exit = 1 /\ cmd'.err = "PromptNotFound")
          /\ (cmd'.op = "add" /\ ~RecognizedCategory(cmd'.category))
                => (cmd'.exit = 1 /\ cmd'.err = "InvalidCategory")
          /\ (/\ cmd'.op = "list"
              /\ cmd'.category # <<>>
              /\ ~RecognizedCategory(cmd'.category[1]))
                => (cmd'.exit = 1 /\ cmd'.err = "InvalidCategory")
          /\ (cmd'.op = "import" /\ ~cmd'.input.exists)
                => (cmd'.exit = 1 /\ cmd'.err = "Io")
          /\ (cmd'.op = "import" /\ cmd'.input \in MalformedFiles)
                => (cmd'.exit = 1 /\ cmd'.err = "Json")]_vars

\* a delete with a key matching none of the saved records: exit code 1, the
\* collection and the file as they were
C13_Witness ==
    /\ cmd.op = "delete" /\ cmd.exit = 1 /\ cmd.err = "PromptNotFound"
    /\ cmd.writes = 0
    /\ bank.prompts # <<>>
    /\ file = save(bank)

NonMutatingOps == {"list", "get", "apply", "search", "export", "info"}
MutatingOps == {"add", "edit", "delete", "import"}

\* C14: an invocation loads, performs one command and saves only if the
\* command mutates: list, get, apply, search, export and info leave the
\* collection in memory as loaded and never write the backing file; add,
\* an edit that changes the content, a confirmed delete and import write
\* the whole collection to the backing file exactly once, after the
\* mutation in memory.
C14_SaveOnlyWhenMutating ==
    [][(cmd.op = "none" /\ cmd'.op # "none") =>
          /\ cmd'.loaded
          /\ cmd'.op \in NonMutatingOps \cup MutatingOps
          /\ cmd'.writes \in {0, 1}
          /\ cmd'.op \in NonMutatingOps =>
                (cmd'.writes = 0 /\ bank' = load(file).bank /\ file' = file)
          /\ cmd'.writes = 0 => (bank' = load(file).bank /\ file' = file)
          /\ cmd'.writes = 1 =>
                (cmd'.op \in MutatingOps /\ cmd'.exit = 0 /\ file' = save(bank'))
          /\ (cmd'.op \in {"add", "import"} /\ cmd'.exit = 0) => cmd'.writes = 1
          /\ (cmd'.op = "delete" /\ cmd'.exit = 0) =>
                (cmd'.writes = 1 <=> cmd'.answer \in {"force", "yes"})
          /\ (cmd'.op = "edit" /\ cmd'.exit = 0) =>
                (cmd'.writes = 1 <=> bank' # load(file).bank)]_vars

\* an edit that changed one of two records and wrote the collection once
C14_Witness ==
    /\ cmd.op = "edit" /\ cmd.exit = 0
    /\ cmd.writes = 1
    /\ Len(bank.prompts) = 2
    /\ file = save(bank)
    /\ \E i \in 1..2 : bank.prompts[i].content = ContentB

----------------------------------------------------------------------------
(* Claims about concurrent invocations *)

\* both processes have saved, and each had loaded before either saved: the
\* collection each saved holds its own record alone
BothLoadedFirst ==
    \A p \in Procs : procs[p].pc = "done" /\ Len(procs[p].bank.prompts) = 1

\* C15: concurrent invocations are not coordinated: when two processes each
\* run load, add, save and both load before either saves, the backing file
\* afterwards holds only the record added by the process that saved last;
\* the other process's add is lost.
C15_LastWriteWins ==
    (BothLoadedFirst /\ cmd.op = "save") =>
        /\ load(file).bank.prompts = procs[cmd.proc].bank.prompts
        /\ \A q \in Procs \ {cmd.proc} :
              procs[q].bank.prompts[1] # procs[cmd.proc].bank.prompts[1] =>
                  \A i \in 1..Len(load(file).bank.prompts) :
                      load(file).bank.prompts[i] # procs[q].bank.prompts[1]

\* the interleaving exists: both loaded the empty store, process 1 saved the
\* record with id "k", process 2 then saved the record with id "i", and the
\* file holds one record
C15_Witness ==
    /\ BothLoadedFirst
    /\ cmd.op = "save" /\ cmd.proc = 2
    /\ procs[1].bank.prompts[1].id = StrK
    /\ procs[2].bank.prompts[1].id = StrI
    /\ Len(load(file).bank.prompts) = 1
    /\ load(file).bank.prompts[1].id = StrI

----------------------------------------------------------------------------
(* Claims about edit *)

\* the edit of the record at position at with the text the editor returned:
\* an unchanged text changes and saves nothing; a changed text changes the
\* content, variables and updated_at of that record and nothing else
EditFrame(old, at, text) ==
    IF text = old.prompts[at].content
    THEN bank' = old /\ file' = file /\ cmd'.writes = 0
    ELSE /\ bank'.version = old.version
         /\ Len(bank'.prompts) = Len(old.prompts)
         /\ \A i \in 1..Len(old.prompts) : i # at => bank'.prompts[i] = old.prompts[i]
         /\ bank'.prompts[at].content = text
         /\ bank'.prompts[at].id = old.prompts[at].id
         /\ bank'.prompts[at].name = old.prompts[at].name
         /\ bank'.prompts[at].category = old.prompts[at].category
         /\ bank'.prompts[at].description = old.prompts[at].description
         /\ bank'.prompts[at].tags = old.prompts[at].tags
         /\ bank'.prompts[at].created_at = old.prompts[at].created_at

\* C16: a successful edit of key K changes only the content, variables and
\* updated_at of the single record that lookup(K) returns; its other fields,
\* every other record (also one whose name is K) and the order are
\* unchanged; when the edited text equals the current content nothing
\* changes and no save is performed.
C16_EditChangesOnlyLookedUp ==
    [][(cmd.op = "none" /\ cmd'.op = "edit" /\ cmd'.exit = 0) =>
          EditFrame(load(file).bank,
                    IdFirstLookup(load(file).bank.prompts, cmd'.key),
                    cmd'.editor.text)]_vars

\* the same frame for the record that get returns, the first one whose id
\* or name is K
C16_HoldsForFirstMatch ==
    [][(cmd.op = "none" /\ cmd'.op = "edit" /\ cmd'.exit = 0) =>
          EditFrame(load(file).bank, get(load(file).bank, cmd'.key), cmd'.editor.text)]_vars

----------------------------------------------------------------------------
(* Claims about the ids of a merged collection *)

\* the ids of the records are pairwise distinct
DistinctIds(prompts) ==
    \A i, j \in 1..Len(prompts) : i # j => prompts[i].id # prompts[j].id

\* C17: import with --merge preserves id uniqueness: if the ids of the
\* collection are pairwise distinct before the import they are pairwise
\* distinct after it, for every imported file, also one that holds the same
\* id more than once or ids already present in the collection.
C17_MergeKeepsIdsDistinct ==
    [][(/\ cmd.op = "none"
        /\ cmd'.op = "import" /\ cmd'.exit = 0 /\ cmd'.merge
        /\ DistinctIds(load(file).bank.prompts))
          => DistinctIds(bank'.prompts)]_vars

\* a merge of a file that holds the id "k" twice into a collection that held
\* the id "i" alone: one of the file's records was appended
C17_Witness ==
    /\ cmd.op = "import" /\ cmd.exit = 0 /\ cmd.merge
    /\ Len(import(cmd.input).bank.prompts) = 2
    /\ \A i \in 1..2 : import(cmd.input).bank.prompts[i].id = StrK
    /\ Len(bank.prompts) = 2
    /\ bank.prompts[1].id = StrI /\ bank.prompts[1].created_at = 0
    /\ bank.prompts[2].id = StrK

----------------------------------------------------------------------------
(* Claims relating extract and render *)

\* the literal text "{{n}}"
Placeholder(n) == Open \o n \o Close

\* every extracted name occurs in the content as "{{n}}", and a rendering
\* with the single pair (n, v), v other than "{{n}}", differs from the content
ExtractedAreRendered ==
    /\ \A k \in 1..Len(tvars) : IsSubstring(Placeholder(tvars[k]), tcontent)
    /\ (/\ tpc = "rendered"
        /\ Len(tsubs) = 1
        /\ Contains(tvars, tsubs[1][1])
        /\ tsubs[1][2] # Placeholder(tsubs[1][1]))
          => trendered # tcontent

\* C18: extract and render agree on what a placeholder is: for every name n
\* in extract(content) the literal text "{{n}}" occurs in content, so
\* rendering with the single pair (n, v), v different from "{{n}}", yields
\* a string different from content.
C18_ExtractedAreRendered ==
    (tpc = "rendered" /\ tvars = extract_variables(tcontent)) => ExtractedAreRendered

\* C18 on the contents without a dangling "{{" (where C3's defect is silent)
C18_HoldsWithoutDangling ==
    (/\ tpc = "rendered"
     /\ tvars = extract_variables(tcontent)
     /\ DanglingAt(tcontent, 1) = 0)
        => ExtractedAreRendered

====
